---- MODULE Spec2Model ----
(***************************************************************************)
(* The Monkey lexer of monkey-rs: src/lexer.rs (Lexer), src/token.rs       *)
(* (Token, lookup_ident).                                                  *)
(*                                                                         *)
(* A Rust char is modelled as a one-character string, a String as the      *)
(* sequence of its chars (Lexer indexes its input by chars(), not bytes),  *)
(* Option<char> as a char or None.  Characters that cannot be written in   *)
(* a TLA+ string literal are named by their code point ("U+00A0").         *)
(***************************************************************************)
EXTENDS Naturals, Sequences, FiniteSets, TLC

(* ------------------------------------------------------------------ *)
(* Bounds of the model                                                 *)
(* ------------------------------------------------------------------ *)

\* Longest source text that is enumerated exhaustively over Alphabet.
MaxLen == 4

\* How many characters past the end of the input the cursor may be driven
\* (every next_token call at end of input still runs read_char).
MaxPastEnd == 3

\* Longest identifier text that is enumerated exhaustively for lookup_ident.
MaxIdentLen == 3

\* Longest line (before its line terminator) that is enumerated exhaustively
\* over LineAlphabet as what the REPL reads.
MaxLineLen == 2

(* ------------------------------------------------------------------ *)
(* Characters                                                          *)
(* ------------------------------------------------------------------ *)

None == "<None>"

AsciiLower ==
    {"a", "b", "c", "d", "e", "f", "g", "h", "i", "j", "k", "l", "m",
     "n", "o", "p", "q", "r", "s", "t", "u", "v", "w", "x", "y", "z"}

AsciiUpper ==
    {"A", "B", "C", "D", "E", "F", "G", "H", "I", "J", "K", "L", "M",
     "N", "O", "P", "Q", "R", "S", "T", "U", "V", "W", "X", "Y", "Z"}

AsciiDigit == {"0", "1", "2", "3", "4", "5", "6", "7", "8", "9"}

\* The characters with the Unicode White_Space property (char::is_whitespace).
WhiteSpace ==
    {" ", "\t", "\n", "\r", "U+000B", "U+000C", "U+0085", "U+00A0",
     "U+1680", "U+2000", "U+2001", "U+2002", "U+2003", "U+2004", "U+2005",
     "U+2006", "U+2007", "U+2008", "U+2009", "U+200A", "U+2028", "U+2029",
     "U+202F", "U+205F", "U+3000"}

\* A mutant of Punctuation: the arm of "/" is missing.
Punctuation_NoSlash ==
    {"=", ";", "(", ")", "{", "}", ",", "+", "-", "!", "*", "<", ">"}

\* The characters next_token matches by name (lexer.rs lines 30-55).
Punctuation ==
    {"=", ";", "(", ")", "{", "}", ",", "+", "-", "!", "*", "/", "<", ">"}

is_ascii_alphabetic(c) == c \in AsciiLower \cup AsciiUpper

is_ascii_digit(c) == c \in AsciiDigit

is_whitespace(c) == c \in WhiteSpace

\* A mutant of is_letter: digits count as identifier characters.
is_letter_alnum(ch) == is_ascii_alphabetic(ch) \/ ch = "_" \/ is_ascii_digit(ch)

is_letter(ch) == is_ascii_alphabetic(ch) \/ ch = "_"

(* ------------------------------------------------------------------ *)
(* Tokens (token.rs)                                                   *)
(* ------------------------------------------------------------------ *)

\* A payload-free token kind carries the empty literal.
Token(kind) == [type |-> kind, literal |-> <<>>]

Illegal(text) == [type |-> "Illegal", literal |-> text]

Ident(text) == [type |-> "Ident", literal |-> text]

Int(text) == [type |-> "Int", literal |-> text]

Eof == Token("Eof")

\* A mutant of lookup_ident: the match ignores the case of the first letter.
lookup_ident_nocase(ident) ==
    CASE ident \in {<<"f", "n">>, <<"F", "n">>} -> Token("Function")
      [] ident \in {<<"l", "e", "t">>, <<"L", "e", "t">>} -> Token("Let")
      [] ident \in {<<"i", "f">>, <<"I", "f">>} -> Token("If")
      [] ident = <<"e", "l", "s", "e">> -> Token("Else")
      [] ident = <<"r", "e", "t", "u", "r", "n">> -> Token("Return")
      [] ident = <<"t", "r", "u", "e">> -> Token("True")
      [] ident = <<"f", "a", "l", "s", "e">> -> Token("False")
      [] OTHER -> Ident(ident)

lookup_ident(ident) ==
    CASE ident = <<"f", "n">> -> Token("Function")
      [] ident = <<"l", "e", "t">> -> Token("Let")
      [] ident = <<"i", "f">> -> Token("If")
      [] ident = <<"e", "l", "s", "e">> -> Token("Else")
      [] ident = <<"r", "e", "t", "u", "r", "n">> -> Token("Return")
      [] ident = <<"t", "r", "u", "e">> -> Token("True")
      [] ident = <<"f", "a", "l", "s", "e">> -> Token("False")
      [] OTHER -> Ident(ident)

(* ------------------------------------------------------------------ *)
(* Lexer (lexer.rs).  A Lexer value is a record of the struct's four   *)
(* fields; every method is an operator from the Lexer before the call  *)
(* to the Lexer after it (and the value returned, if any).             *)
(* ------------------------------------------------------------------ *)

peek_char(l) ==
    IF l.read_position >= Len(l.input)
    THEN None
    ELSE l.input[l.read_position + 1]

\* A mutant of read_char: reading past the end of the input rewinds the cursor.
read_char_rewind(l) ==
    IF l.read_position > Len(l.input)
    THEN [l EXCEPT !.ch = None, !.position = 0, !.read_position = 1]
    ELSE [l EXCEPT !.ch = peek_char(l),
                   !.position = l.read_position,
                   !.read_position = l.read_position + 1]

\* A mutant of read_char: at the end of the input the cursor stays where it is.
read_char_stop(l) ==
    IF l.ch = None /\ l.read_position > Len(l.input)
    THEN l
    ELSE [l EXCEPT !.ch = peek_char(l),
                   !.position = l.read_position,
                   !.read_position = l.read_position + 1]

read_char(l) ==
    [l EXCEPT !.ch = peek_char(l),
              !.position = l.read_position,
              !.read_position = l.read_position + 1]

\* A mutant of read_range: the end index is taken as inclusive.
read_range_inclusive(input, start, end) ==
    LET last == IF end + 1 <= Len(input) THEN end + 1 ELSE Len(input)
    IN  IF start >= Len(input) THEN <<>> ELSE SubSeq(input, start + 1, last)

\* chars().skip(start).take(end - start): take stops at the end of the text.
read_range(input, start, end) ==
    LET last == IF end <= Len(input) THEN end ELSE Len(input)
    IN  IF start >= Len(input) THEN <<>> ELSE SubSeq(input, start + 1, last)

\* The loops below are recursions, one read_char per turn; each turn binds the
\* Lexer after its read_char to n, so that the next turn starts from a value.

\* A mutant of skip_whitespace: it skips one whitespace character, not the run.
skip_whitespace_once(l) ==
    IF l.ch # None /\ is_whitespace(l.ch) THEN read_char(l) ELSE l

RECURSIVE skip_whitespace(_)
skip_whitespace(l) ==
    IF l.ch # None /\ is_whitespace(l.ch)
    THEN CHOOSE after \in {skip_whitespace(n) : n \in {read_char(l)}} : TRUE
    ELSE l

\* The while loop of read_identifier: the Lexer after the run of letters.
RECURSIVE scan_letters(_)
scan_letters(l) ==
    IF l.ch # None /\ is_letter(l.ch)
    THEN CHOOSE after \in {scan_letters(n) : n \in {read_char(l)}} : TRUE
    ELSE l

\* A mutant of read_identifier: it reads one character, not the run.
read_identifier_one(l) ==
    LET after == IF l.ch # None /\ is_letter(l.ch) THEN read_char(l) ELSE l
    IN  [lexer |-> after,
         text |-> read_range(l.input, l.position, after.position)]

read_identifier(l) ==
    LET after == scan_letters(l)
    IN  [lexer |-> after,
         text |-> read_range(l.input, l.position, after.position)]

\* The while loop of read_number: the Lexer after the run of digits.
RECURSIVE scan_digits(_)
scan_digits(l) ==
    IF l.ch # None /\ is_ascii_digit(l.ch)
    THEN CHOOSE after \in {scan_digits(n) : n \in {read_char(l)}} : TRUE
    ELSE l

\* A mutant of read_number: it reads one digit, not the run.
read_number_one(l) ==
    LET after == IF l.ch # None /\ is_ascii_digit(l.ch) THEN read_char(l) ELSE l
    IN  [lexer |-> after,
         text |-> read_range(l.input, l.position, after.position)]

read_number(l) ==
    LET after == scan_digits(l)
    IN  [lexer |-> after,
         text |-> read_range(l.input, l.position, after.position)]

\* A mutant of new: the first character is not read.
new_unread(input) ==
    [input |-> input, position |-> 0, read_position |-> 0, ch |-> None]

\* Lexer::new
new(input) ==
    read_char([input |-> input, position |-> 0, read_position |-> 0, ch |-> None])

\* A mutant of operator_token: no lookahead, "=" and "!" are always one token.
operator_token_nopeek(l, c) ==
    CASE c = "=" -> [lexer |-> l, token |-> Token("Assign")]
      [] c = ";" -> [lexer |-> l, token |-> Token("Semicolon")]
      [] c = "(" -> [lexer |-> l, token |-> Token("Lparen")]
      [] c = ")" -> [lexer |-> l, token |-> Token("Rparen")]
      [] c = "{" -> [lexer |-> l, token |-> Token("Lbrace")]
      [] c = "}" -> [lexer |-> l, token |-> Token("Rbrace")]
      [] c = "," -> [lexer |-> l, token |-> Token("Comma")]
      [] c = "+" -> [lexer |-> l, token |-> Token("Plus")]
      [] c = "-" -> [lexer |-> l, token |-> Token("Minus")]
      [] c = "!" -> [lexer |-> l, token |-> Token("Bang")]
      [] c = "*" -> [lexer |-> l, token |-> Token("Asterisk")]
      [] c = "/" -> [lexer |-> l, token |-> Token("Slash")]
      [] c = "<" -> [lexer |-> l, token |-> Token("Lt")]
      [] c = ">" -> [lexer |-> l, token |-> Token("Gt")]

\* The named arms of next_token's match on Some(c), c in Punctuation: the
\* token, and the Lexer before the read_char that ends next_token.
operator_token(l, c) ==
    CASE c = "=" ->
            IF peek_char(l) = "="
            THEN [lexer |-> read_char(l), token |-> Token("Equal")]
            ELSE [lexer |-> l, token |-> Token("Assign")]
      [] c = ";" -> [lexer |-> l, token |-> Token("Semicolon")]
      [] c = "(" -> [lexer |-> l, token |-> Token("Lparen")]
      [] c = ")" -> [lexer |-> l, token |-> Token("Rparen")]
      [] c = "{" -> [lexer |-> l, token |-> Token("Lbrace")]
      [] c = "}" -> [lexer |-> l, token |-> Token("Rbrace")]
      [] c = "," -> [lexer |-> l, token |-> Token("Comma")]
      [] c = "+" -> [lexer |-> l, token |-> Token("Plus")]
      [] c = "-" -> [lexer |-> l, token |-> Token("Minus")]
      [] c = "!" ->
            IF peek_char(l) = "="
            THEN [lexer |-> read_char(l), token |-> Token("NotEqual")]
            ELSE [lexer |-> l, token |-> Token("Bang")]
      [] c = "*" -> [lexer |-> l, token |-> Token("Asterisk")]
      [] c = "/" -> [lexer |-> l, token |-> Token("Slash")]
      [] c = "<" -> [lexer |-> l, token |-> Token("Lt")]
      [] c = ">" -> [lexer |-> l, token |-> Token("Gt")]

\* A mutant of default_token: the branches do not return at once, so the
\* read_char that ends next_token runs after the scan.
default_token_fallthrough(l, c) ==
    IF is_letter(c)
    THEN LET r == read_identifier(l)
         IN  [lexer |-> read_char(r.lexer), token |-> lookup_ident(r.text)]
    ELSE IF is_ascii_digit(c)
    THEN LET r == read_number(l)
         IN  [lexer |-> read_char(r.lexer), token |-> Int(r.text)]
    ELSE [lexer |-> read_char(l), token |-> Illegal(<<c>>)]

\* The default arm of next_token's match: each branch returns at once, so the
\* read_char that ends next_token does not run.
default_token(l, c) ==
    IF is_letter(c)
    THEN LET r == read_identifier(l)
         IN  [lexer |-> r.lexer, token |-> lookup_ident(r.text)]
    ELSE IF is_ascii_digit(c)
    THEN LET r == read_number(l)
         IN  [lexer |-> r.lexer, token |-> Int(r.text)]
    ELSE [lexer |-> l, token |-> Illegal(<<c>>)]

\* Lexer::next_token: the Lexer after the call and the token returned; start
\* is the position after skip_whitespace, where the token begins.
next_token(l) ==
    LET s == skip_whitespace(l)
        c == s.ch
        r == IF c = None
             THEN [lexer |-> read_char(s), token |-> Eof]
             ELSE IF c \in Punctuation
             THEN LET o == operator_token(s, c)
                  IN  [lexer |-> read_char(o.lexer), token |-> o.token]
             ELSE default_token(s, c)
    IN  [lexer |-> r.lexer, token |-> r.token, start |-> s.position]

(* ------------------------------------------------------------------ *)
(* Source texts                                                        *)
(* ------------------------------------------------------------------ *)

\* Every text over Alphabet of at most MaxLen characters is a source: the
\* alphabet has a character of every class next_token tells apart.
Alphabet == {"=", "!", "i", "f", "1", " ", "@", ";"}

AlphabetTexts == UNION {[1..n -> Alphabet] : n \in 0..MaxLen}

SrcIffy == <<"i", "f", "f", "y">>

SrcLet1 == <<"l", "e", "t", "1">>

SrcFoobar == <<"f", "o", "o", "b", "a", "r">>

Src12345 == <<"1", "2", "3", "4", "5">>

SrcAt == <<"@">>

\* The end-to-end input of the specification (section 8).
SrcProgram ==
    <<"l", "e", "t", " ", "f", "i", "v", "e", " ", "=", " ", "5", ";",
      "\n", "l", "e", "t", " ", "a", "d", "d", " ", "=", " ", "f", "n",
      "(", "x", ",", " ", "y", ")", " ", "{", " ", "x", " ", "+", " ", "y",
      ";", " ", "}", ";", "\n", "!", "-", "/", "*", "5", ";", "\n", "5",
      " ", "<", " ", "1", "0", " ", ">", " ", "5", ";", "\n", "1", "0",
      " ", "=", "=", " ", "1", "0", ";", "\n", "1", "0", " ", "!", "=",
      " ", "9", ";", "\n">>

\* The input of tests::test_next_token.
SrcTestProgram ==
    <<"l", "e", "t", " ", "f", "i", "v", "e", " ", "=", " ", "5", ";",
      "\n", "l", "e", "t", " ", "t", "e", "n", " ", "=", " ", "1", "0",
      ";", "\n", "\n", "l", "e", "t", " ", "a", "d", "d", " ", "=", " ",
      "f", "n", "(", "x", ",", " ", "y", ")", " ", "{", "\n", " ", " ",
      " ", " ", "x", " ", "+", " ", "y", ";", "\n", "}", ";", "\n", "\n",
      "l", "e", "t", " ", "r", "e", "s", "u", "l", "t", " ", "=", " ", "a",
      "d", "d", "(", "f", "i", "v", "e", ",", " ", "t", "e", "n", ")", ";",
      "\n", "!", "-", "/", "*", "5", ";", "\n", "5", " ", "<", " ", "1",
      "0", " ", ">", " ", "5", ";", "\n", "\n", "i", "f", " ", "(", "5",
      " ", "<", " ", "1", "0", ")", " ", "{", "\n", " ", " ", " ", " ",
      "r", "e", "t", "u", "r", "n", " ", "t", "r", "u", "e", ";", "\n",
      "}", " ", "e", "l", "s", "e", " ", "{", "\n", " ", " ", " ", " ",
      "r", "e", "t", "u", "r", "n", " ", "f", "a", "l", "s", "e", ";",
      "\n", "}", "\n", "\n", "1", "0", " ", "=", "=", " ", "1", "0", ";",
      "\n", "1", "0", " ", "!", "=", " ", "9", ";", "\n">>

ReservedWords ==
    {<<"f", "n">>,
     <<"l", "e", "t">>,
     <<"i", "f">>,
     <<"e", "l", "s", "e">>,
     <<"r", "e", "t", "u", "r", "n">>,
     <<"t", "r", "u", "e">>,
     <<"f", "a", "l", "s", "e">>}

\* Texts of the test and of the specification, and texts with characters outside
\* Alphabet: underscores, capitals, control and non-ASCII whitespace, non-ASCII
\* letters and digits.
Corpus ==
    {SrcIffy,
     SrcLet1,
     SrcFoobar,
     Src12345,
     SrcAt,
     SrcProgram,
     SrcTestProgram,
     <<"L", "e", "t">>,
     <<"l", "e", "t", "s">>,
     <<"f">>,
     <<"_">>,
     <<"a", "_", "b">>,
     <<"x", "1", "y">>,
     <<"1", "x">>,
     <<"f", "o", "o", "_", "b", "a", "r", " ", "b", "a", "z">>,
     <<"l", "e", "t", " ", "f", "i", "v", "e", " ", "=", " ", "5", ";">>,
     <<"1", "0", " ", "=", "=", " ", "1", "0", ";">>,
     <<"1", "0", " ", "!", "=", " ", "9", ";">>,
     <<"!", "-", "/", "*", "5", ";">>,
     <<"5", " ", "<", " ", "1", "0", " ", ">", " ", "5", ";">>,
     <<"f", "n", "(", "x", ",", " ", "y", ")", " ", "{", " ", "x", " ", "+", " ", "y", ";", " ", "}", ";">>,
     <<"i", "f", " ", "(", "5", " ", "<", " ", "1", "0", ")", " ", "{", "\n", "\t", "r", "e", "t", "u", "r", "n", " ", "t", "r", "u", "e", ";", "\n", "}">>,
     <<"\t", "\n", "\r", " ">>,
     <<"a", "\n", "b">>,
     <<"@", "@">>,
     <<"1", "@", "1">>,
     <<"x", " ", "@">>,
     <<"U+00A0", "U+3000", "U+2003">>,
     <<"x", "U+00A0", "y">>,
     <<"U+00E9">>,
     <<"c", "a", "f", "U+00E9">>,
     <<"U+0661", "2">>}
        \cup ReservedWords

\* Every character next_token matches by name, followed by a character of
\* every class.
PunctuationPairs ==
    {<<a, b>> : a \in Punctuation,
                b \in Punctuation \cup {"a", "_", "1", " ", "\n", "@"}}

Sources == AlphabetTexts \cup Corpus \cup PunctuationPairs

\* The texts lookup_ident is applied to on its own: it is a public function
\* that accepts any text.
IdentAlphabet == {"f", "n", "i", "l", "e", "t", "L", "1"}

IdentTexts ==
    UNION {[1..n -> IdentAlphabet] : n \in 0..MaxIdentLen}
        \cup ReservedWords
        \cup {SrcIffy, SrcLet1, SrcFoobar,
              <<"L", "e", "t">>,
              <<"l", "e", "t", "s">>,
              <<"L", "E", "T">>,
              <<"R", "e", "t", "u", "r", "n">>,
              <<"T", "r", "u", "e">>,
              <<"F", "A", "L", "S", "E">>,
              <<"e", "l", "s">>,
              <<"e", "l", "s", "e", "e">>,
              <<"r", "e", "t", "u", "r">>,
              <<"r", "e", "t", "u", "r", "n", "s">>,
              <<"f", "a", "l", "s">>,
              <<"f", "a", "l", "s", "e", "e">>,
              <<"t", "r", "u">>,
              <<"f", "n", " ">>,
              <<" ", "i", "f">>}

(* ------------------------------------------------------------------ *)
(* State                                                               *)
(* ------------------------------------------------------------------ *)

\* input, position, read_position, ch: the fields of the Lexer.
\* tok:    the token the last next_token call returned (NoToken before any).
\* start:  the position at which that token began (after skip_whitespace).
\* tokens: the tokens returned so far, in order, at most HistoryCap of them.
\* parity: the parity of the number of next_token calls made.
\* ident, looked: the argument and the result of a lookup_ident call made on
\*         its own (NoToken before the call).
\* pc:     where the caller of the Lexer is: "lexer" when the Lexer is driven
\*         directly; in repl.rs start, "prompt" at the top of the outer loop
\*         and "tokens" at the top of the inner loop.
\* printed: the tokens start has printed for the line it read last, in order,
\*         at most HistoryCap of them.
VARIABLES input, position, read_position, ch, tok, start, tokens, parity,
          ident, looked, pc, printed

vars == <<input, position, read_position, ch, tok, start, tokens, parity,
          ident, looked, pc, printed>>

NoToken == [type |-> "<none>", literal |-> <<>>]

\* The Lexer the variables hold.
lexer == [input |-> input, position |-> position,
          read_position |-> read_position, ch |-> ch]

\* A source of n characters yields at most n tokens before Eof, and at most
\* MaxPastEnd calls are made at the end of the input.
HistoryCap == Len(input) + MaxPastEnd

\* let mut l = Lexer::new(source)
Init ==
    /\ input \in Sources
    /\ position = new(input).position
    /\ read_position = new(input).read_position
    /\ ch = new(input).ch
    /\ tok = NoToken
    /\ start = 0
    /\ tokens = <<>>
    /\ parity = 0
    /\ ident = <<>>
    /\ looked = NoToken
    /\ pc = "lexer"
    /\ printed = <<>>

\* l.next_token().  The call is always possible; the model stops making calls
\* once the cursor is MaxPastEnd characters past the end of the input.
NextToken ==
    /\ pc = "lexer"
    /\ position < Len(input) + MaxPastEnd
    /\ \E r \in {next_token(lexer)} :
           /\ position' = r.lexer.position
           /\ read_position' = r.lexer.read_position
           /\ ch' = r.lexer.ch
           /\ tok' = r.token
           /\ start' = r.start
           /\ tokens' = IF Len(tokens) < HistoryCap
                         THEN Append(tokens, r.token)
                         ELSE tokens
    /\ parity' = 1 - parity
    /\ UNCHANGED <<input, ident, looked, pc, printed>>

Next == NextToken

Spec == Init /\ [][Next]_vars

\* The caller keeps calling next_token (repl.rs: the inner loop of start).
FairSpec == Spec /\ WF_vars(NextToken)

\* lookup_ident on its own: any text, one call.
InitLookup ==
    /\ input = <<>>
    /\ position = new(input).position
    /\ read_position = new(input).read_position
    /\ ch = new(input).ch
    /\ tok = NoToken
    /\ start = 0
    /\ tokens = <<>>
    /\ parity = 0
    /\ ident \in IdentTexts
    /\ looked = NoToken
    /\ pc = "lexer"
    /\ printed = <<>>

Lookup ==
    /\ looked = NoToken
    /\ looked' = lookup_ident(ident)
    /\ UNCHANGED <<input, position, read_position, ch, tok, start, tokens,
                   parity, ident, pc, printed>>

NextLookup == Lookup

LookupSpec == InitLookup /\ [][NextLookup]_vars

(* ------------------------------------------------------------------ *)
(* The REPL (repl.rs, start)                                           *)
(* ------------------------------------------------------------------ *)

LineAlphabet == {"=", "i", "1", " ", "@", ";"}

\* What read_line leaves in line: a text and its line terminator; at the end
\* of the input, a text without terminator, or nothing.
Lines ==
    LET texts == UNION {[1..n -> LineAlphabet] : n \in 0..MaxLineLen}
    IN  {t \o <<"\n">> : t \in texts}
            \cup {<<>>, <<"i", "f">>, <<"@">>, <<"\r", "\n">>, <<" ", "\n">>}
            \cup {<<"l", "e", "t", " ", "x", " ", "=", " ", "5", ";", "\n">>,
                  <<"x", " ", "@", " ", "y", "\n">>,
                  <<"1", "0", " ", "!", "=", " ", "9", ";", "\r", "\n">>}

\* start has not yet read a line: no Lexer exists, the Lexer variables hold
\* the Lexer of the empty text.
ReplInit ==
    /\ input = <<>>
    /\ position = new(input).position
    /\ read_position = new(input).read_position
    /\ ch = new(input).ch
    /\ tok = NoToken
    /\ start = 0
    /\ tokens = <<>>
    /\ parity = 0
    /\ ident = <<>>
    /\ looked = NoToken
    /\ pc = "prompt"
    /\ printed = <<>>

\* A mutant of ReplToken: the token is printed before it is compared with Eof.
ReplToken_PrintFirst ==
    /\ pc = "tokens"
    /\ \E r \in {next_token(lexer)} :
           /\ position' = r.lexer.position
           /\ read_position' = r.lexer.read_position
           /\ ch' = r.lexer.ch
           /\ tok' = r.token
           /\ start' = r.start
           /\ tokens' = IF Len(tokens) < HistoryCap
                         THEN Append(tokens, r.token)
                         ELSE tokens
           /\ printed' = IF Len(printed) < HistoryCap
                          THEN Append(printed, r.token)
                          ELSE printed
           /\ pc' = IF r.token = Eof THEN "prompt" ELSE "tokens"
    /\ parity' = 1 - parity
    /\ UNCHANGED <<input, ident, looked>>

\* The outer loop up to the inner loop (repl.rs lines 9-17): print the prompt,
\* read a line; on a read error or a line that is "\n" alone, continue;
\* otherwise construct the Lexer of the line.
ReplReadLine ==
    /\ pc = "prompt"
    /\ \/ \* read_line(..).is_err()
          UNCHANGED vars
       \/ \E line \in Lines :
              IF line = <<"\n">>
              THEN UNCHANGED vars
              ELSE /\ input' = line
                   /\ position' = new(line).position
                   /\ read_position' = new(line).read_position
                   /\ ch' = new(line).ch
                   /\ tok' = NoToken
                   /\ start' = 0
                   /\ tokens' = <<>>
                   /\ parity' = 0
                   /\ printed' = <<>>
                   /\ pc' = "tokens"
                   /\ UNCHANGED <<ident, looked>>

\* One turn of the inner loop (repl.rs lines 20-26): take the next token; on
\* Eof break, which ends the turn of the outer loop; otherwise print it.
ReplToken ==
    /\ pc = "tokens"
    /\ \E r \in {next_token(lexer)} :
           /\ position' = r.lexer.position
           /\ read_position' = r.lexer.read_position
           /\ ch' = r.lexer.ch
           /\ tok' = r.token
           /\ start' = r.start
           /\ tokens' = IF Len(tokens) < HistoryCap
                         THEN Append(tokens, r.token)
                         ELSE tokens
           /\ IF r.token = Eof
              THEN pc' = "prompt" /\ printed' = printed
              ELSE /\ pc' = "tokens"
                   /\ printed' = IF Len(printed) < HistoryCap
                                  THEN Append(printed, r.token)
                                  ELSE printed
    /\ parity' = 1 - parity
    /\ UNCHANGED <<input, ident, looked>>

ReplNext == ReplReadLine \/ ReplToken

ReplSpec == ReplInit /\ [][ReplNext]_vars

\* The inner loop does not block: once entered, its next turn is taken.
\* Reading a line may block for ever, so ReplReadLine has no fairness.
ReplFairSpec == ReplSpec /\ WF_vars(ReplToken)

(* ------------------------------------------------------------------ *)
(* Vocabulary of the properties, stated on the source text itself      *)
(* ------------------------------------------------------------------ *)

Letters == AsciiLower \cup AsciiUpper \cup {"_"}

ReservedKinds == {"Function", "Let", "If", "Else", "Return", "True", "False"}

\* A character outside every recognized set.
Unrecognized(c) ==
    c \notin WhiteSpace \cup Letters \cup AsciiDigit \cup Punctuation

\* The character at 0-based index i of the source, None past its end.
CharAt(i) == IF i < Len(input) THEN input[i + 1] ELSE None

\* The number of whitespace characters between index pos and the first
\* character after it that is not whitespace (or the end of the source).
LeadingWhitespace(pos) ==
    CHOOSE n \in 0..Len(input) :
        /\ pos + n <= Len(input)
        /\ \A i \in pos..(pos + n - 1) : CharAt(i) \in WhiteSpace
        /\ CharAt(pos + n) \notin WhiteSpace

\* A character that is not whitespace lies at or after the cursor.
NonWhitespaceRemains ==
    \E i \in position..(Len(input) - 1) : CharAt(i) \notin WhiteSpace

\* The source spelling of a token kind without payload.
Spelling(kind) ==
    CASE kind = "Assign" -> <<"=">>
      [] kind = "Plus" -> <<"+">>
      [] kind = "Minus" -> <<"-">>
      [] kind = "Bang" -> <<"!">>
      [] kind = "Asterisk" -> <<"*">>
      [] kind = "Slash" -> <<"/">>
      [] kind = "Lt" -> <<"<">>
      [] kind = "Gt" -> <<">">>
      [] kind = "Equal" -> <<"=", "=">>
      [] kind = "NotEqual" -> <<"!", "=">>
      [] kind = "Comma" -> <<",">>
      [] kind = "Semicolon" -> <<";">>
      [] kind = "Lparen" -> <<"(">>
      [] kind = "Rparen" -> <<")">>
      [] kind = "Lbrace" -> <<"{">>
      [] kind = "Rbrace" -> <<"}">>
      [] kind = "Function" -> <<"f", "n">>
      [] kind = "Let" -> <<"l", "e", "t">>
      [] kind = "If" -> <<"i", "f">>
      [] kind = "Else" -> <<"e", "l", "s", "e">>
      [] kind = "Return" -> <<"r", "e", "t", "u", "r", "n">>
      [] kind = "True" -> <<"t", "r", "u", "e">>
      [] kind = "False" -> <<"f", "a", "l", "s", "e">>
      [] OTHER -> <<>>

Lexeme(t) ==
    IF t.type \in {"Ident", "Int", "Illegal"} THEN t.literal ELSE Spelling(t.type)

(* ------------------------------------------------------------------ *)
(* C1 .. C10                                                           *)
(* ------------------------------------------------------------------ *)

\* C1: for every source text, repeated next_token calls on a fresh Lexer
\* return Eof after finitely many calls.  (Checked under FairSpec: the caller
\* keeps calling.)
C1_EventuallyEof == <>(tok = Eof)

\* C2: a source that is one unrecognized character c tokenizes to Illegal(c),
\* Eof: the first call returns Illegal(c) and leaves the cursor one character
\* further, the second call returns Eof.
C2_IllegalThenEof ==
    (Len(input) = 1 /\ Unrecognized(input[1])) =>
        /\ Len(tokens) >= 1 => tokens[1] = Illegal(input)
        /\ Len(tokens) = 1 => position = 1
        /\ Len(tokens) >= 2 => tokens[2] = Eof

\* C3: a next_token call made while a non-whitespace character remains moves
\* position by the number of whitespace characters skipped plus the length of
\* the returned token's lexeme, which is at least 1, Illegal included.
C3_AdvancesByLexeme ==
    [][NonWhitespaceRemains =>
          /\ Len(Lexeme(tok')) >= 1
          /\ position' = position + LeadingWhitespace(position) + Len(Lexeme(tok'))
          /\ position' >= position + 1]_vars

\* C4 (as claimed): "iffy" tokenizes to Ident("iffy"), Eof and "let1" to
\* Ident("let1"), Eof; neither yields a Let or an If token.
C4_NearMissIsIdent ==
    input \in {SrcIffy, SrcLet1} =>
        /\ \A i \in 1..Len(tokens) : tokens[i].type \notin {"Let", "If"}
        /\ Len(tokens) >= 1 => tokens[1] = Ident(input)
        /\ Len(tokens) >= 2 => tokens[2] = Eof

\* C4 (amended): a text of letters and underscores that is not exactly a
\* reserved word ("iffy") tokenizes to one Ident with the full text, then Eof;
\* a digit ends the identifier scan, so "let1" tokenizes to Let, Int("1"), Eof.
C4_NearMissAmended ==
    /\ (/\ input # <<>>
        /\ \A i \in 1..Len(input) : input[i] \in Letters
        /\ input \notin ReservedWords) =>
            /\ Len(tokens) >= 1 => tokens[1] = Ident(input)
            /\ Len(tokens) >= 2 => tokens[2] = Eof
    /\ input = SrcLet1 =>
            /\ Len(tokens) >= 1 => tokens[1] = Token("Let")
            /\ Len(tokens) >= 2 => tokens[2] = Int(<<"1">>)
            /\ Len(tokens) >= 3 => tokens[3] = Eof

C4_Witness ==
    \/ input = SrcLet1 /\ tokens = <<Token("Let"), Int(<<"1">>), Eof>>
    \/ input = SrcIffy /\ tokens = <<Ident(SrcIffy), Eof>>

\* C5: lookup_ident returns a reserved-word token exactly for the texts fn,
\* let, if, else, return, true, false (Function, Let, If, Else, Return, True,
\* False), matched case-sensitively, and Ident(text) for every other text.
C5_LookupIdent ==
    looked # NoToken =>
        /\ looked.type \in ReservedKinds <=> ident \in ReservedWords
        /\ ident \in ReservedWords =>
              looked.literal = <<>> /\ Spelling(looked.type) = ident
        /\ ident \notin ReservedWords => looked = Ident(ident)

C5_Witness ==
    /\ ident = <<"L", "e", "t">>
    /\ looked = Ident(<<"L", "e", "t">>)

\* The tokens returned so far for source src are the first of the sequence
\* expected.
Yields(src, expected) ==
    input = src =>
        \A i \in 1..Len(expected) : Len(tokens) >= i => tokens[i] = expected[i]

\* C6: when the character the token starts with is "=" (resp. "!") and the
\* next character is "=", next_token returns Equal (resp. NotEqual) and leaves
\* the cursor two characters after the start; otherwise it returns Assign
\* (resp. Bang) and leaves it one character after.  So "==" yields Equal, Eof;
\* "=" yields Assign, Eof; "===" yields Equal, Assign, Eof; "!==" yields
\* NotEqual, Assign, Eof.
C6_TwoCharOperators ==
    /\ [][LET p == position + LeadingWhitespace(position)
          IN  (NonWhitespaceRemains /\ CharAt(p) \in {"=", "!"}) =>
                  IF CharAt(p + 1) = "="
                  THEN /\ tok' = IF CharAt(p) = "="
                                 THEN Token("Equal")
                                 ELSE Token("NotEqual")
                       /\ position' = p + 2
                  ELSE /\ tok' = IF CharAt(p) = "="
                                 THEN Token("Assign")
                                 ELSE Token("Bang")
                       /\ position' = p + 1]_vars
    /\ [](/\ Yields(<<"=", "=">>, <<Token("Equal"), Eof>>)
          /\ Yields(<<"=">>, <<Token("Assign"), Eof>>)
          /\ Yields(<<"=", "=", "=">>, <<Token("Equal"), Token("Assign"), Eof>>)
          /\ Yields(<<"!", "=", "=">>,
                    <<Token("NotEqual"), Token("Assign"), Eof>>))

C6_Witness ==
    /\ input = <<"!", "=", "=">>
    /\ tokens = <<Token("NotEqual"), Token("Assign"), Eof>>

\* C7: after next_token returns an Ident or a reserved word, the character at
\* the cursor is absent or no letter or underscore, and the character before
\* the token is no letter or underscore either; after it returns an Int, the
\* characters on both sides are absent or no ASCII digits.  So a run of letters
\* (of digits) is one token: "foobar" yields Ident("foobar"), "12345" yields
\* Int("12345").
C7_MaximalMunch ==
    /\ tok.type \in {"Ident"} \cup ReservedKinds =>
          /\ CharAt(position) \notin Letters
          /\ start > 0 => CharAt(start - 1) \notin Letters
    /\ tok.type = "Int" =>
          /\ CharAt(position) \notin AsciiDigit
          /\ start > 0 => CharAt(start - 1) \notin AsciiDigit
    /\ Yields(SrcFoobar, <<Ident(SrcFoobar), Eof>>)
    /\ Yields(Src12345, <<Int(Src12345), Eof>>)

C7_Witness ==
    /\ input = SrcFoobar
    /\ tokens = <<Ident(SrcFoobar), Eof>>

\* C8: the payload of every Int and Ident that next_token returns is not empty
\* and is the source text from the position where the token started up to,
\* not including, the position of the cursor after the call; an Int payload
\* is all ASCII digits, an Ident payload all ASCII letters and underscores.
C8_PayloadIsSourceRun ==
    tok.type \in {"Int", "Ident"} =>
        /\ tok.literal # <<>>
        /\ start < position
        /\ position <= Len(input)
        /\ tok.literal = [i \in 1..(position - start) |-> input[start + i]]
        /\ \A i \in 1..Len(tok.literal) :
              tok.literal[i] \in IF tok.type = "Int" THEN AsciiDigit ELSE Letters

C8_Witness ==
    /\ tok = Ident(<<"f", "i", "v", "e">>)
    /\ start = 4
    /\ position = 8

\* C9: on a source of whitespace characters only (or none), the first
\* next_token call returns Eof; and no token is ever returned for a whitespace
\* character: a token other than Eof starts at a character that is not
\* whitespace.
C9_WhitespaceOnly ==
    /\ (\A i \in 1..Len(input) : input[i] \in WhiteSpace) =>
          (Len(tokens) >= 1 => tokens[1] = Eof)
    /\ (tok # NoToken /\ tok # Eof) =>
          /\ start < Len(input)
          /\ CharAt(start) \notin WhiteSpace
          /\ Lexeme(tok)[1] = CharAt(start)

C9_Witness ==
    /\ input = <<"\t", "\n", "\r", " ">>
    /\ tokens = <<Eof>>

\* C10: no next_token call moves the cursor back: position and read_position
\* after the call are at least what they were before it.
C10_CursorNeverRegresses ==
    [][position' >= position /\ read_position' >= read_position]_vars

C10_Witness ==
    /\ Len(tokens) >= 3
    /\ tok = Eof
    /\ position > Len(input) + 1

(* ------------------------------------------------------------------ *)
(* C11 .. C19                                                          *)
(* ------------------------------------------------------------------ *)

\* The source has no unrecognized character.
AllRecognized == \A i \in 1..Len(input) : ~Unrecognized(input[i])

\* The token sequence the specification lists for SrcProgram.
TokensProgram ==
    <<Token("Let"), Ident(<<"f", "i", "v", "e">>), Token("Assign"),
      Int(<<"5">>), Token("Semicolon"), Token("Let"),
      Ident(<<"a", "d", "d">>), Token("Assign"), Token("Function"),
      Token("Lparen"), Ident(<<"x">>), Token("Comma"), Ident(<<"y">>),
      Token("Rparen"), Token("Lbrace"), Ident(<<"x">>), Token("Plus"),
      Ident(<<"y">>), Token("Semicolon"), Token("Rbrace"),
      Token("Semicolon"), Token("Bang"), Token("Minus"), Token("Slash"),
      Token("Asterisk"), Int(<<"5">>), Token("Semicolon"), Int(<<"5">>),
      Token("Lt"), Int(<<"1", "0">>), Token("Gt"), Int(<<"5">>),
      Token("Semicolon"), Int(<<"1", "0">>), Token("Equal"),
      Int(<<"1", "0">>), Token("Semicolon"), Int(<<"1", "0">>),
      Token("NotEqual"), Int(<<"9">>), Token("Semicolon"), Eof>>

\* The token sequence tests::test_next_token asserts for SrcTestProgram.
TokensTestProgram ==
    <<Token("Let"), Ident(<<"f", "i", "v", "e">>), Token("Assign"),
      Int(<<"5">>), Token("Semicolon"), Token("Let"),
      Ident(<<"t", "e", "n">>), Token("Assign"), Int(<<"1", "0">>),
      Token("Semicolon"), Token("Let"), Ident(<<"a", "d", "d">>),
      Token("Assign"), Token("Function"), Token("Lparen"), Ident(<<"x">>),
      Token("Comma"), Ident(<<"y">>), Token("Rparen"), Token("Lbrace"),
      Ident(<<"x">>), Token("Plus"), Ident(<<"y">>), Token("Semicolon"),
      Token("Rbrace"), Token("Semicolon"), Token("Let"),
      Ident(<<"r", "e", "s", "u", "l", "t">>), Token("Assign"),
      Ident(<<"a", "d", "d">>), Token("Lparen"),
      Ident(<<"f", "i", "v", "e">>), Token("Comma"),
      Ident(<<"t", "e", "n">>), Token("Rparen"), Token("Semicolon"),
      Token("Bang"), Token("Minus"), Token("Slash"), Token("Asterisk"),
      Int(<<"5">>), Token("Semicolon"), Int(<<"5">>), Token("Lt"),
      Int(<<"1", "0">>), Token("Gt"), Int(<<"5">>), Token("Semicolon"),
      Token("If"), Token("Lparen"), Int(<<"5">>), Token("Lt"),
      Int(<<"1", "0">>), Token("Rparen"), Token("Lbrace"), Token("Return"),
      Token("True"), Token("Semicolon"), Token("Rbrace"), Token("Else"),
      Token("Lbrace"), Token("Return"), Token("False"), Token("Semicolon"),
      Token("Rbrace"), Int(<<"1", "0">>), Token("Equal"),
      Int(<<"1", "0">>), Token("Semicolon"), Int(<<"1", "0">>),
      Token("NotEqual"), Int(<<"9">>), Token("Semicolon"), Eof>>

\* C11: a program of recognized characters is returned token by token in
\* source order: each token begins at or after the place the one before it
\* ended and is the source text at its place, whitespace and newlines give no
\* token, and Eof comes when no character is left and not before.  The
\* end-to-end input of the specification yields its 42 listed tokens, Let,
\* Ident("five"), ... Semicolon, Eof, and the input of the test yields the
\* tokens the test asserts.
C11_ProgramTokens ==
    /\ [][AllRecognized =>
             /\ start' >= position
             /\ \A i \in position..(start' - 1) : CharAt(i) \in WhiteSpace
             /\ tok' = Eof <=> ~NonWhitespaceRemains
             /\ tok' # Eof =>
                   /\ start' < position' /\ position' <= Len(input)
                   /\ Lexeme(tok') =
                         [i \in 1..(position' - start') |-> input[start' + i]]]_vars
    /\ [](/\ Yields(SrcProgram, TokensProgram)
          /\ Yields(SrcTestProgram, TokensTestProgram))

C11_Witness ==
    /\ input = SrcProgram
    /\ Len(tokens) = 42
    /\ tokens = TokensProgram

\* C12 (as claimed): when start is back at its prompt after tokenizing a line,
\* it has printed every token the Lexer returned for the line, in order, the
\* Eof included.  (Stated for the lines that hold a character that is not
\* whitespace, which are not blank on any reading.)
C12_PrintsThroughEof ==
    (/\ pc = "prompt"
     /\ tokens # <<>>
     /\ \E i \in 1..Len(input) : input[i] \notin WhiteSpace) => printed = tokens

\* C12 (amended): start prints the tokens of the line in the order the Lexer
\* returns them, each one before the next is taken, up to but not including
\* Eof: Eof ends the inner loop unprinted, and when start is back at its
\* prompt it has printed exactly the tokens returned before Eof.
C12_PrintsBeforeEof ==
    /\ pc = "tokens" => printed = tokens
    /\ (pc = "prompt" /\ tokens # <<>>) => tokens = Append(printed, Eof)
    /\ \A i \in 1..Len(printed) : printed[i] # Eof

C12_Witness ==
    /\ pc = "prompt"
    /\ input = <<"l", "e", "t", " ", "x", " ", "=", " ", "5", ";", "\n">>
    /\ printed = <<Token("Let"), Ident(<<"x">>), Token("Assign"),
                   Int(<<"5">>), Token("Semicolon")>>

\* C13 is a statement about two runs of the Lexer.  next_token is an operator
\* of this module, so two Lexers of one text that make the same calls agree
\* by the definition of the model alone, whatever next_token does; that the
\* token depends on the text and the position only is what C14 states of every
\* reachable Lexer (read_position and ch are determined by input and position).

\* C14: after construction and after every next_token call, read_position is
\* position + 1, the current character is absent exactly when position is at
\* or past the number of characters of the source, and otherwise it is the
\* source character at index position.
C14_CursorInvariant ==
    /\ read_position = position + 1
    /\ ch = None <=> position >= Len(input)
    /\ position < Len(input) => ch = input[position + 1]

C14_Witness ==
    /\ input = <<"a", "\n", "b">>
    /\ Len(tokens) = 1
    /\ position = 1
    /\ ch = "\n"

\* C15 (as claimed): when the current character is absent, next_token returns
\* Eof and position and read_position are after the call what they were
\* before it.
C15_EofDoesNotAdvance ==
    [][ch = None =>
          /\ tok' = Eof
          /\ position' = position
          /\ read_position' = read_position]_vars

\* C15 (amended): when nothing but whitespace is left, next_token returns Eof
\* and the current character is absent after the call, but the call still
\* runs read_char once: position is one more than it was after the whitespace
\* was skipped (the end of the source, or position itself when it was already
\* past the end), and read_position one more than position.
C15_EofAdvancesByOne ==
    [][~NonWhitespaceRemains =>
          /\ tok' = Eof
          /\ ch' = None
          /\ start' = IF position < Len(input) THEN Len(input) ELSE position
          /\ position' = start' + 1
          /\ read_position' = position' + 1]_vars

C15_Witness ==
    /\ input = <<>>
    /\ tokens = <<Eof, Eof>>
    /\ position = 2
    /\ read_position = 3

\* The text with its whitespace characters removed.
StripWhitespace(text) == SelectSeq(text, LAMBDA c : c \notin WhiteSpace)

\* The lexemes of the first n tokens returned, one after the other.
RECURSIVE ConcatLexemes(_)
ConcatLexemes(n) ==
    IF n = 0 THEN <<>> ELSE ConcatLexemes(n - 1) \o Lexeme(tokens[n])

\* The number of tokens returned before the first Eof.
BeforeEof ==
    CHOOSE n \in 0..Len(tokens) :
        /\ \A i \in 1..n : tokens[i] # Eof
        /\ n < Len(tokens) => tokens[n + 1] = Eof

\* C16: for a source with no unrecognized character, once Eof has been
\* returned, the lexemes of the tokens returned before it, in order, make up
\* the source text without its whitespace characters.
C16_LexemesCoverSource ==
    (AllRecognized /\ tok = Eof) =>
        ConcatLexemes(BeforeEof) = StripWhitespace(input)

C16_Witness ==
    /\ input = SrcTestProgram
    /\ tok = Eof
    /\ BeforeEof = 73

\* C17: after start has read a line and entered the inner loop, it comes back
\* to its prompt: the inner loop ends for every line, lines with unrecognized
\* characters included.  (Checked under ReplFairSpec: the loop keeps running.)
C17_PromptsAgain == (pc = "tokens") ~> (pc = "prompt")

\* C18: once a next_token call has returned Eof, every later call returns Eof,
\* and the current character is absent after each of them.
C18_EofAbsorbing ==
    /\ [][tok = Eof => tok' = Eof]_vars
    /\ [](tok = Eof => ch = None)

C18_Witness ==
    /\ input = <<"=">>
    /\ tokens = <<Token("Assign"), Eof, Eof, Eof>>

\* The token kind of a one-character operator or delimiter.
SingleCharKind(c) ==
    CASE c = ";" -> "Semicolon"
      [] c = "(" -> "Lparen"
      [] c = ")" -> "Rparen"
      [] c = "{" -> "Lbrace"
      [] c = "}" -> "Rbrace"
      [] c = "," -> "Comma"
      [] c = "+" -> "Plus"
      [] c = "-" -> "Minus"
      [] c = "*" -> "Asterisk"
      [] c = "/" -> "Slash"
      [] c = "<" -> "Lt"
      [] c = ">" -> "Gt"

\* C19: when the character the token starts with is one of ; ( ) { } , + - *
\* / < >, next_token returns Semicolon, Lparen, Rparen, Lbrace, Rbrace, Comma,
\* Plus, Minus, Asterisk, Slash, Lt, Gt respectively and leaves the cursor one
\* character after it, whatever character follows.
C19_SingleCharTokens ==
    [][LET p == position + LeadingWhitespace(position)
       IN  (/\ NonWhitespaceRemains
            /\ CharAt(p) \in {";", "(", ")", "{", "}", ",", "+", "-", "*", "/",
                              "<", ">"}) =>
               /\ tok' = Token(SingleCharKind(CharAt(p)))
               /\ start' = p
               /\ position' = p + 1]_vars

C19_Witness ==
    /\ input = <<"<", "=">>
    /\ tokens = <<Token("Lt"), Token("Assign"), Eof>>

====
